---------------------------- MODULE Spec2Model ----------------------------
(***************************************************************************)
(* Model of pkg/gateway/utils/http.go: ParseURL, DoHTTPWithHandler,        *)
(* DoHTTP and DoHTTPWithRetry.                                             *)
(*                                                                         *)
(* Strings that the code inspects character by character (URLs) are        *)
(* sequences of one-character strings.  Texts that the code only builds    *)
(* with fmt (error messages) are the format and its arguments.  Go's int   *)
(* is 64 bits wide and the port result is a uint32; both are kept exactly, *)
(* as little-endian sequences of 16-bit limbs.                             *)
(***************************************************************************)
EXTENDS Integers, Sequences, FiniteSets, TLC

(***************************************************************************)
(* Bounds of the model.                                                    *)
(***************************************************************************)
\* longest host-port/path text, in characters, that follows the scheme
MaxRestLen == 4
\* largest maxRetryTimes a caller passes to DoHTTPWithRetry
MaxRetry == 3

\* largest maxRetryTimes of a call that runs beside another call
ConcRetry == 1

(***************************************************************************)
(* Text helpers: strings.HasPrefix, strings.SplitN(s, sep, 2),             *)
(* strings.Split, as ParseURL uses them.                                   *)
(***************************************************************************)
Chars(s) == { s[k] : k \in 1..Len(s) }

HasPrefix(s, p) == Len(s) >= Len(p) /\ SubSeq(s, 1, Len(p)) = p

\* index of the first occurrence of character c in s, 0 when there is none
IndexOf(s, c) ==
    IF \E k \in 1..Len(s) : s[k] = c
    THEN CHOOSE k \in 1..Len(s) : s[k] = c /\ \A j \in 1..(k - 1) : s[j] # c
    ELSE 0

\* strings.SplitN(s, c, 2): at most two parts, cut at the first c
SplitN2(s, c) ==
    LET k == IndexOf(s, c)
    IN  IF k = 0 THEN << s >>
        ELSE << SubSeq(s, 1, k - 1), SubSeq(s, k + 1, Len(s)) >>

\* strings.Split(s, c): every part between occurrences of c
RECURSIVE Split(_, _)
Split(s, c) ==
    LET k == IndexOf(s, c)
    IN  IF k = 0 THEN << s >>
        ELSE << SubSeq(s, 1, k - 1) >> \o Split(SubSeq(s, k + 1, Len(s)), c)

(***************************************************************************)
(* 64-bit integers as four 16-bit limbs, least significant first.          *)
(***************************************************************************)
LimbBase == 2 ^ 16
HalfLimb == 2 ^ 15
Digits == { "0", "1", "2", "3", "4", "5", "6", "7", "8", "9" }

DigitVal(c) ==
    CASE c = "0" -> 0 [] c = "1" -> 1 [] c = "2" -> 2 [] c = "3" -> 3
      [] c = "4" -> 4 [] c = "5" -> 5 [] c = "6" -> 6 [] c = "7" -> 7
      [] c = "8" -> 8 [] c = "9" -> 9

ZeroLimbs == << 0, 0, 0, 0 >>
MaxInt64Limbs == << LimbBase - 1, LimbBase - 1, LimbBase - 1, HalfLimb - 1 >>
\* magnitude of the smallest int64, 2^63
MinInt64Mag == << 0, 0, 0, HalfLimb >>

\* m * 10 + d on the limbs; over is set once the value leaves 64 bits
MulAdd(acc, d) ==
    LET m  == acc.mag
        t1 == m[1] * 10 + d
        t2 == m[2] * 10 + (t1 \div LimbBase)
        t3 == m[3] * 10 + (t2 \div LimbBase)
        t4 == m[4] * 10 + (t3 \div LimbBase)
    IN  [ mag  |-> << t1 % LimbBase, t2 % LimbBase, t3 % LimbBase, t4 % LimbBase >>,
          over |-> acc.over \/ t4 >= LimbBase ]

RECURSIVE Accumulate(_, _)
Accumulate(acc, s) ==
    IF s = << >> THEN acc
    ELSE Accumulate(MulAdd(acc, DigitVal(Head(s))), Tail(s))

\* whether the magnitude is above 2^63
Above63(m) == m[4] > HalfLimb \/ (m[4] = HalfLimb /\ (m[1] # 0 \/ m[2] # 0 \/ m[3] # 0))

\* strconv.Atoi on a 64-bit build: an optional sign, then decimal digits.
\* err is "nil", "syntax" or "range"; on a syntax error the value is 0, on a
\* range error it is the nearest int64.
Atoi(s) ==
    LET signed == s # << >> /\ s[1] \in { "-", "+" }
        neg    == s # << >> /\ s[1] = "-"
        ds     == IF signed THEN Tail(s) ELSE s
        acc    == Accumulate([ mag |-> ZeroLimbs, over |-> FALSE ], ds)
        range  == \/ acc.over
                  \/ (~neg /\ acc.mag[4] >= HalfLimb)
                  \/ (neg /\ Above63(acc.mag))
    IN  IF ds = << >> \/ ~(Chars(ds) \subseteq Digits)
        THEN [ err |-> "syntax", neg |-> FALSE, mag |-> ZeroLimbs ]
        ELSE IF range
        THEN [ err |-> "range", neg |-> neg,
               mag |-> IF neg THEN MinInt64Mag ELSE MaxInt64Limbs ]
        ELSE [ err |-> "nil", neg |-> neg, mag |-> acc.mag ]

\* an int that holds a small constant
IntOf(n) == [ err |-> "nil", neg |-> FALSE,
              mag |-> << n % LimbBase, n \div LimbBase, 0, 0 >> ]

\* the conversion uint32(port): the low 32 bits of the two's complement
Uint32(v) ==
    LET lo == v.mag[1]
        hi == v.mag[2]
    IN  IF ~v.neg THEN << lo, hi >>
        ELSE << (LimbBase - lo) % LimbBase,
                (LimbBase - hi - (IF lo = 0 THEN 0 ELSE 1)) % (LimbBase) >>

(***************************************************************************)
(* ParseURL                                                                *)
(***************************************************************************)
HttpPrefix == << "h", "t", "t", "p", ":", "/", "/" >>
HttpsPrefix == << "h", "t", "t", "p", "s", ":", "/", "/" >>

\* DefaultPort with the two defaults exchanged
DefaultPortSwapped(protocol) == IF protocol = "http" THEN IntOf(443) ELSE IntOf(80)

DefaultPort(protocol) == IF protocol = "http" THEN IntOf(80) ELSE IntOf(443)

\* lines 51-71: the part of ParseURL after the scheme is recognised
ParseHostPort(protocol, rest) ==
    LET parts    == SplitN2(rest, "/")
        hostPort == parts[1]
        path     == IF Len(parts) > 1 THEN << "/" >> \o parts[2] ELSE << >>
        fields   == Split(hostPort, ":")
        host     == fields[1]
        conv     == Atoi(fields[2])
    IN  IF Len(fields) = 2
        THEN IF conv.err # "nil"
             THEN [ protocol |-> protocol, host |-> host, port |-> Uint32(conv),
                    path |-> path, err |-> conv.err ]
             ELSE [ protocol |-> protocol, host |-> host, port |-> Uint32(conv),
                    path |-> path, err |-> "nil" ]
        ELSE [ protocol |-> protocol, host |-> host,
               port |-> Uint32(DefaultPort(protocol)), path |-> path, err |-> "nil" ]

ParseURL(url) ==
    IF HasPrefix(url, HttpPrefix)
    THEN ParseHostPort("http", SubSeq(url, 8, Len(url)))
    ELSE IF HasPrefix(url, HttpsPrefix)
    THEN ParseHostPort("https", SubSeq(url, 9, Len(url)))
    ELSE [ protocol |-> "", host |-> << >>, port |-> Uint32(IntOf(0)),
           path |-> << >>, err |-> "invalid host" ]

(***************************************************************************)
(* Errors.  An error value is the format string that built its text plus   *)
(* the arguments formatted into it; the nil error is NilErr.               *)
(***************************************************************************)
NilErr == [ fmt |-> "nil" ]

\* errors of the collaborators (encoding/json, net/http, io)
MarshalErr == [ fmt |-> "json: unsupported type" ]
URLErr == [ fmt |-> "parse: invalid URL escape" ]
TransportErr == [ fmt |-> "dial tcp: connection refused" ]
ReadErr == [ fmt |-> "unexpected EOF" ]
SyntaxErr == [ fmt |-> "invalid character looking for beginning of value" ]
TypeErr(f) == [ fmt |-> "json: cannot unmarshal string into Go struct field of type int",
                field |-> f ]

\* ErrType, lines 87-96
NewHTTPRequestError == 0
InParameterMarshalToJSONError == 1
OutParameterRunMarshalFromJSONError == 2
ResponseStatusCodeNotOK == 3
DoHTTPError == 4
IOError == 5
ErrTypes == 0..5

\* http.StatusOK, line 141
StatusOK == 200
\* the longest body text carried in an error, lines 142-143 and 150-151
TruncLen == 200

(***************************************************************************)
(* The data of a call.                                                     *)
(***************************************************************************)
\* the fields of the value behind the output location, and its first state
Fields == { "a", "b" }
OutInit == [ f \in Fields |-> 0 ]

\* A JSON document: syntactically valid or not, and the members of its
\* object in order; ok tells whether the member's value fits the field's type.
InvalidDoc == [ valid |-> FALSE, members |-> << >> ]
EmptyDoc == [ valid |-> TRUE, members |-> << >> ]
FullDoc == [ valid |-> TRUE,
             members |-> << [ f |-> "a", v |-> 1, ok |-> TRUE ],
                            [ f |-> "b", v |-> 1, ok |-> TRUE ] >> ]
PartDoc == [ valid |-> TRUE,
             members |-> << [ f |-> "a", v |-> 2, ok |-> TRUE ],
                            [ f |-> "b", v |-> 0, ok |-> FALSE ] >> ]
OnlyBDoc == [ valid |-> TRUE, members |-> << [ f |-> "b", v |-> 2, ok |-> TRUE ] >> ]

\* the bytes of a body of n bytes: each byte is told apart by its position
Bytes(n) == [ k \in 1..n |-> k % 256 ]

\* response bodies the server sends: a length in bytes and the document
Payloads ==
    { [ len |-> 0, doc |-> InvalidDoc ],
      [ len |-> TruncLen + 1, doc |-> InvalidDoc ],
      [ len |-> 2, doc |-> EmptyDoc ],
      [ len |-> TruncLen, doc |-> FullDoc ],
      [ len |-> 16, doc |-> PartDoc ],
      [ len |-> TruncLen - 1, doc |-> OnlyBDoc ] }

Statuses == { StatusOK, 201, 404 }

Responses == [ status : Statuses, payload : Payloads ]

Methods == { "GET", "POST" }
\* http.NewRequest rejects the second path (an invalid escape)
Paths == { "/api", "/%zz" }
ValidPath(p) == p = "/api"

\* header names as http.Header.Set stores them (textproto canonical form)
Canonical(k) ==
    CASE k = "content-type" -> "Content-Type"
      [] k = "kuscia-Host" -> "Kuscia-Host"
      [] k = "kuscia-host" -> "Kuscia-Host"
      [] OTHER -> k

ClusterHeader == "Kuscia-Handshake-Cluster"

\* caller-supplied extra headers: sets of <<name, value>>, names unique as
\* map keys; the keys of the last set differ in letter case only
HeaderSets ==
    { { },
      { << "Content-Type", "text/plain" >>, << "X-Trace", "t1" >> },
      { << "kuscia-host", "h1" >>, << "Kuscia-Host", "h2" >> } }

HTTPParams ==
    [ Method : Methods, Path : Paths, ClusterName : { "cluster-1" },
      KusciaSource : { "alice" }, KusciaHost : { "bob.svc" }, Headers : HeaderSets ]

(***************************************************************************)
(* The collaborators, by what they do.                                     *)
(***************************************************************************)
\* json.Marshal(in): the input either serializes or does not
JSONMarshal(in) ==
    IF in.ok THEN [ body |-> << "json", in.id >>, err |-> NilErr ]
    ELSE [ body |-> << >>, err |-> MarshalErr ]

\* Store adding each member to what the field holds
RECURSIVE StoreAdding(_, _)
StoreAdding(members, out) ==
    IF members = << >> THEN out
    ELSE LET m == Head(members)
         IN  StoreAdding(Tail(members),
                         IF m.ok THEN [ out EXCEPT ![m.f] = out[m.f] + m.v ] ELSE out)

\* decoding the members of a valid object one by one: a member whose value
\* does not fit its field is skipped, the others are stored
RECURSIVE Store(_, _)
Store(members, out) ==
    IF members = << >> THEN out
    ELSE LET m == Head(members)
         IN  Store(Tail(members), IF m.ok THEN [ out EXCEPT ![m.f] = m.v ] ELSE out)

FirstBad(members) ==
    LET bad == { k \in 1..Len(members) : ~members[k].ok }
    IN  IF bad = { } THEN 0 ELSE CHOOSE k \in bad : \A j \in bad : k <= j

\* json.Unmarshal(body, out): a syntax error leaves out alone; a type error
\* is reported after the rest of the document has been decoded into out
JSONUnmarshal(doc, out) ==
    IF ~doc.valid THEN [ out |-> out, err |-> SyntaxErr ]
    ELSE LET k == FirstBad(doc.members)
         IN  [ out |-> Store(doc.members, out),
               err |-> IF k = 0 THEN NilErr ELSE TypeErr(doc.members[k].f) ]

\* http.Header.Set
HeaderSet(h, k, v) == { p \in h : p[1] # Canonical(k) } \cup { << Canonical(k), v >> }

\* the range over hp.Headers, lines 124-126: every order is possible
RECURSIVE Overlay(_, _)
Overlay(h, extra) ==
    IF extra = { } THEN { h }
    ELSE UNION { Overlay(HeaderSet(h, p[1], p[2]), extra \ { p }) : p \in extra }

\* RequestHeaders setting the standard headers after the caller's
RequestHeadersStandardLast(hp) ==
    { HeaderSet(HeaderSet(HeaderSet(HeaderSet(h, "Content-Type", "application/json"),
                                    ClusterHeader, hp.ClusterName),
                          "Kuscia-Source", hp.KusciaSource),
                "kuscia-Host", hp.KusciaHost) : h \in Overlay({ }, hp.Headers) }

\* lines 120-126
RequestHeaders(hp) ==
    LET h1 == HeaderSet({ }, "Content-Type", "application/json")
        h2 == HeaderSet(h1, ClusterHeader, hp.ClusterName)
        h3 == HeaderSet(h2, "Kuscia-Source", hp.KusciaSource)
        h4 == HeaderSet(h3, "kuscia-Host", hp.KusciaHost)
    IN  Overlay(h4, hp.Headers)

\* Truncate cutting one byte late
TruncateOffByOne(bytes) ==
    IF Len(bytes) > TruncLen THEN SubSeq(bytes, 1, TruncLen + 1) ELSE bytes

\* body[:200] when len(body) > 200, lines 142-144 and 150-152
Truncate(bytes) == IF Len(bytes) > TruncLen THEN SubSeq(bytes, 1, TruncLen) ELSE bytes

\* line 145
StatusError(status, bytes) ==
    [ fmt |-> "code: %d, message: %s", code |-> status, message |-> Truncate(bytes) ]

\* line 153
DecodeError(err, bytes) ==
    [ fmt |-> "%s, body:%s", err |-> err, body |-> Truncate(bytes) ]

\* lines 179-181
genErrorPrefix(hp) ==
    [ fmt |-> "request(method:%s path:%s cluster:%s host:%s)", method |-> hp.Method,
      path |-> hp.Path, cluster |-> hp.ClusterName, host |-> hp.KusciaHost ]

\* Clause with the texts of two cases exchanged
ClauseSwapped(et) ==
    CASE et = NewHTTPRequestError -> "%s new fail:%v"
      [] et = InParameterMarshalToJSONError -> "%s in parameter marshal to json fail:%v"
      [] et = OutParameterRunMarshalFromJSONError -> "%s out parameter unmarshal from json fail:%v"
      [] et = ResponseStatusCodeNotOK -> "%s get code is not ok: %v"
      [] et = DoHTTPError -> "%s read body fail: %v"
      [] et = IOError -> "%s do fail: %v"

\* the closure DoHTTP passes as handler, lines 160-175: the value stored in e
Clause(et) ==
    CASE et = NewHTTPRequestError -> "%s new fail:%v"
      [] et = InParameterMarshalToJSONError -> "%s in parameter marshal to json fail:%v"
      [] et = OutParameterRunMarshalFromJSONError -> "%s out parameter unmarshal from json fail:%v"
      [] et = ResponseStatusCodeNotOK -> "%s get code is not ok: %v"
      [] et = DoHTTPError -> "%s do fail: %v"
      [] et = IOError -> "%s read body fail: %v"

DoHTTPHandler(hp, et, err) ==
    [ fmt |-> Clause(et), prefix |-> genErrorPrefix(hp), err |-> err ]

\* line 84
RetryError(maxRetryTimes, hp, err) ==
    [ fmt |-> "request error, retry at maxtimes:%d, path: %s, err:%s",
      maxtimes |-> maxRetryTimes, path |-> hp.Path, err |-> err ]

(***************************************************************************)
(* State.  call is the state of the one call in progress: the position in  *)
(* the code (pc), the arguments, the locals of DoHTTPWithHandler (req,     *)
(* inbody, resp, body), of DoHTTP (e) and of DoHTTPWithRetry (i, err), the *)
(* value behind the output location (out) and the return value (ret).      *)
(* History kept for the properties: trace (steps the current attempt ran), *)
(* failed (those of them that failed), cb (invocations of the handler in   *)
(* the current attempt), out0 (out when the attempt began), attempts,      *)
(* sleeps, okAt (the first attempt with no failed step), firstErr (the     *)
(* error of attempt 1), slept (the length of each sleep), run (1, or 2     *)
(* when the caller repeats the call) and first (how the first run ended).  *)
(* peer is the state of a second call, made by another goroutine while    *)
(* call is in progress.  url and parsed are the argument and the result of *)
(* ParseURL.                                                               *)
(***************************************************************************)
VARIABLES call, url, parsed, peer

vars == << call, url, parsed, peer >>

\* values the caller may pass as in: one that serializes, one that does not
Inputs == { [ ok |-> TRUE, id |-> "value" ], [ ok |-> FALSE, id |-> "chan" ] }

\* delays the caller may pass as waitTime, in milliseconds
WaitTimes == { 100, 250 }

NoReq == [ isNil |-> TRUE ]
NoResp == [ isNil |-> TRUE ]
NoRet == [ kind |-> "none", err |-> NilErr ]
NoParse == [ protocol |-> "", host |-> << >>, port |-> << 0, 0 >>, path |-> << >>,
             err |-> "none" ]

\* how the first of two runs ended: whether every step succeeded, the
\* payload it decoded, the value behind the output location, and the number
\* of handler invocations
NoFirst == [ ok |-> FALSE, payload |-> [ len |-> 0, doc |-> InvalidDoc ],
             out |-> OutInit, calls |-> 0 ]

Idle ==
    [ pc |-> "idle", entry |-> "none",
      in |-> [ ok |-> TRUE, id |-> "value" ],
      hp |-> [ Method |-> "GET", Path |-> "/api", ClusterName |-> "cluster-1",
               KusciaSource |-> "alice", KusciaHost |-> "bob.svc", Headers |-> { } ],
      hasHandler |-> TRUE, maxRetryTimes |-> 0,
      out |-> OutInit, out0 |-> OutInit,
      inbody |-> << >>, req |-> NoReq, resp |-> NoResp, body |-> << >>,
      doc |-> InvalidDoc,
      e |-> NilErr, i |-> 0, err |-> NilErr, ret |-> NoRet,
      trace |-> << >>, failed |-> << >>, cb |-> << >>,
      attempts |-> 0, sleeps |-> 0, okAt |-> 0, firstErr |-> NilErr,
      waitTime |-> 0, slept |-> << >>,
      run |-> 1, first |-> NoFirst ]

\* FirstStep without the test of the method
FirstStepAlwaysMarshal(hp) == "marshal"

\* where DoHTTPWithHandler begins, line 101
FirstStep(hp) == IF hp.Method = "GET" THEN "newreq" ELSE "marshal"

\* entering DoHTTPWithHandler for one more attempt
BeginAttempt(c) ==
    [ c EXCEPT !.pc = FirstStep(c.hp), !.inbody = << >>, !.req = NoReq, !.resp = NoResp,
               !.body = << >>, !.doc = InvalidDoc, !.trace = << >>, !.failed = << >>,
               !.cb = << >>, !.out0 = c.out, !.attempts = c.attempts + 1 ]

\* handler(et, err): the caller's own handler records the call; the closure
\* of DoHTTP also stores the formatted error in e
Invoke(c, et, err) ==
    [ c EXCEPT !.cb = Append(c.cb, [ et |-> et, err |-> err ]),
               !.e = IF c.entry = "DoHTTPWithHandler" THEN c.e
                     ELSE DoHTTPHandler(c.hp, et, err),
               !.pc = "return" ]

\* a step ran
Ran(c, step) == [ c EXCEPT !.trace = Append(c.trace, step) ]
\* a step ran and failed
Failed(c, step) ==
    [ c EXCEPT !.trace = Append(c.trace, step), !.failed = Append(c.failed, step) ]

\* a nil pointer dereference ends the process
Panic(c) == [ c EXCEPT !.pc = "done", !.ret = [ kind |-> "panic", err |-> NilErr ] ]

(***************************************************************************)
(* DoHTTPWithHandler, lines 98-156, step by step.  Each operator gives the *)
(* states the call may be in after the step.                               *)
(***************************************************************************)
\* lines 108-112
MarshalStep(c) ==
    LET m == JSONMarshal(c.in)
    IN  IF m.err # NilErr /\ c.hasHandler
        THEN { Invoke(Failed(c, "marshal"), InParameterMarshalToJSONError, m.err) }
        ELSE IF m.err # NilErr
        THEN { [ Failed(c, "marshal") EXCEPT !.inbody = m.body, !.pc = "newreq" ] }
        ELSE { [ Ran(c, "marshal") EXCEPT !.inbody = m.body, !.pc = "newreq" ] }

\* lines 102-106 and 113-117
NewRequestStep(c) ==
    IF ~ValidPath(c.hp.Path) /\ c.hasHandler
    THEN { Invoke(Failed(c, "newreq"), NewHTTPRequestError, URLErr) }
    ELSE IF ~ValidPath(c.hp.Path)
    THEN { [ Failed(c, "newreq") EXCEPT !.req = NoReq, !.pc = "headers" ] }
    ELSE { [ Ran(c, "newreq") EXCEPT
               !.req = [ isNil |-> FALSE, method |-> c.hp.Method, path |-> c.hp.Path,
                         body |-> c.inbody, header |-> { } ],
               !.pc = "headers" ] }

\* lines 120-126; req.Header on a nil request is a nil pointer dereference
HeadersStep(c) ==
    IF c.req.isNil THEN { Panic(Ran(c, "headers")) }
    ELSE { [ Ran(c, "headers") EXCEPT !.req.header = h, !.pc = "send" ] :
             h \in RequestHeaders(c.hp) }

\* SendStep reporting a failed send under the category of a failed read
SendStepWrongCategory(c) ==
    { IF c.hasHandler
      THEN Invoke(Failed(c, "send"), IOError, TransportErr)
      ELSE [ Failed(c, "send") EXCEPT !.resp = NoResp, !.pc = "read" ] }
    \cup
    { [ Ran(c, "send") EXCEPT
          !.resp = [ isNil |-> FALSE, status |-> r.status, payload |-> r.payload ],
          !.pc = "read" ] : r \in Responses }

\* lines 127-132: the transport fails, or answers with any response
SendStep(c) ==
    { IF c.hasHandler
      THEN Invoke(Failed(c, "send"), DoHTTPError, TransportErr)
      ELSE [ Failed(c, "send") EXCEPT !.resp = NoResp, !.pc = "read" ] }
    \cup
    { [ Ran(c, "send") EXCEPT
          !.resp = [ isNil |-> FALSE, status |-> r.status, payload |-> r.payload ],
          !.pc = "read" ] : r \in Responses }

\* lines 134-139; resp.Body on a nil response is a nil pointer dereference.
\* A failed read leaves what was read so far: half of the body.
ReadStep(c) ==
    IF c.resp.isNil THEN { Panic(Ran(c, "read")) }
    ELSE LET p    == c.resp.payload
             part == Bytes(p.len \div 2)
         IN  { [ Ran(c, "read") EXCEPT !.body = Bytes(p.len), !.doc = p.doc,
                                       !.pc = "status" ] }
             \cup
             { IF c.hasHandler
               THEN Invoke([ Failed(c, "read") EXCEPT !.body = part ], IOError, ReadErr)
               ELSE [ Failed(c, "read") EXCEPT !.body = part, !.doc = InvalidDoc,
                                               !.pc = "status" ] }

\* StatusStep without the return after the handler
StatusStepNoReturn(c) ==
    IF c.resp.status # StatusOK /\ c.hasHandler
    THEN { [ Invoke([ Failed(c, "status") EXCEPT !.body = Truncate(c.body) ],
                    ResponseStatusCodeNotOK, StatusError(c.resp.status, c.body))
               EXCEPT !.pc = "unmarshal" ] }
    ELSE IF c.resp.status # StatusOK
    THEN { [ Failed(c, "status") EXCEPT !.pc = "unmarshal" ] }
    ELSE { [ Ran(c, "status") EXCEPT !.pc = "unmarshal" ] }

\* lines 141-147
StatusStep(c) ==
    IF c.resp.status # StatusOK /\ c.hasHandler
    THEN { Invoke([ Failed(c, "status") EXCEPT !.body = Truncate(c.body) ],
                  ResponseStatusCodeNotOK, StatusError(c.resp.status, c.body)) }
    ELSE IF c.resp.status # StatusOK
    THEN { [ Failed(c, "status") EXCEPT !.pc = "unmarshal" ] }
    ELSE { [ Ran(c, "status") EXCEPT !.pc = "unmarshal" ] }

\* lines 149-155
UnmarshalStep(c) ==
    LET u == JSONUnmarshal(c.doc, c.out)
        d == [ c EXCEPT !.out = u.out ]
    IN  IF u.err # NilErr /\ c.hasHandler
        THEN { Invoke([ Failed(d, "unmarshal") EXCEPT !.body = Truncate(c.body) ],
                      OutParameterRunMarshalFromJSONError, DecodeError(u.err, c.body)) }
        ELSE IF u.err # NilErr
        THEN { [ Failed(d, "unmarshal") EXCEPT !.pc = "return" ] }
        ELSE { [ Ran(d, "unmarshal") EXCEPT !.pc = "return" ] }

(***************************************************************************)
(* DoHTTP, lines 158-177, and DoHTTPWithRetry, lines 74-85.                *)
(***************************************************************************)
\* the value a finished call hands back
Returned(c, kind, err) == [ c EXCEPT !.pc = "done", !.ret = [ kind |-> kind, err |-> err ] ]

\* ReturnStep without the return on a nil error: the loop goes on
ReturnStepNoEarlyExit(c) ==
    LET d == [ c EXCEPT !.okAt = IF c.okAt = 0 /\ c.failed = << >> THEN c.attempts
                                 ELSE c.okAt,
                        !.firstErr = IF c.attempts = 1 THEN c.e ELSE c.firstErr ]
    IN  IF c.entry = "DoHTTPWithHandler" THEN Returned(d, "void", NilErr)
        ELSE IF c.entry = "DoHTTP" THEN Returned(d, "error", c.e)
        ELSE [ d EXCEPT !.err = c.e, !.pc = "sleep" ]

\* ReturnStep keeping the error of the first failed attempt in err
ReturnStepKeepFirst(c) ==
    LET d == [ c EXCEPT !.okAt = IF c.okAt = 0 /\ c.failed = << >> THEN c.attempts
                                 ELSE c.okAt,
                        !.firstErr = IF c.attempts = 1 THEN c.e ELSE c.firstErr ]
    IN  IF c.entry = "DoHTTPWithHandler" THEN Returned(d, "void", NilErr)
        ELSE IF c.entry = "DoHTTP" THEN Returned(d, "error", c.e)
        ELSE IF c.e = NilErr THEN Returned([ d EXCEPT !.err = c.e ], "error", NilErr)
        ELSE [ d EXCEPT !.err = IF c.err = NilErr THEN c.e ELSE c.err, !.pc = "sleep" ]

\* DoHTTPWithHandler has returned: to the caller itself, to DoHTTP which
\* returns e (line 176), or through DoHTTP to the loop of DoHTTPWithRetry,
\* which returns nil when e is nil (lines 77-80)
ReturnStep(c) ==
    LET d == [ c EXCEPT !.okAt = IF c.okAt = 0 /\ c.failed = << >> THEN c.attempts
                                 ELSE c.okAt,
                        !.firstErr = IF c.attempts = 1 THEN c.e ELSE c.firstErr ]
    IN  IF c.entry = "DoHTTPWithHandler" THEN Returned(d, "void", NilErr)
        ELSE IF c.entry = "DoHTTP" THEN Returned(d, "error", c.e)
        ELSE IF c.e = NilErr THEN Returned([ d EXCEPT !.err = c.e ], "error", NilErr)
        ELSE [ d EXCEPT !.err = c.e, !.pc = "sleep" ]

\* SleepStep with a delay that grows with the attempts made
SleepStepBackoff(c) ==
    [ c EXCEPT !.sleeps = c.sleeps + 1, !.slept = Append(c.slept, c.waitTime * (c.i + 1)),
               !.i = c.i + 1, !.pc = "loop" ]

\* line 81, time.Sleep(waitTime), then i++
SleepStep(c) ==
    [ c EXCEPT !.sleeps = c.sleeps + 1, !.slept = Append(c.slept, c.waitTime),
               !.i = c.i + 1, !.pc = "loop" ]

\* line 76: one more attempt (DoHTTP starts with e nil, line 159), or line 84:
\* err.Error() on a nil err is a nil pointer dereference
LoopStep(c) ==
    IF c.i < c.maxRetryTimes THEN BeginAttempt([ c EXCEPT !.e = NilErr ])
    ELSE IF c.err = NilErr THEN Panic(c)
    ELSE Returned(c, "error", RetryError(c.maxRetryTimes, c.hp, c.err))

(***************************************************************************)
(* The inputs of ParseURL.                                                 *)
(***************************************************************************)
Prefixes == { HttpPrefix, HttpsPrefix, << "f", "t", "p", ":", "/", "/" >>, << >> }
RestChars == { "a", ":", "/", "7", "-" }
Rests == UNION { [ 1..n -> RestChars ] : n \in 0..MaxRestLen }
\* ports around the ends of uint32 and int64, and a signed port
LongRests ==
    { << "a", ":", "+", "7" >>,
      << "a", ":", "4", "2", "9", "4", "9", "6", "7", "2", "9", "5" >>,
      << "a", ":", "4", "2", "9", "4", "9", "6", "7", "2", "9", "7" >>,
      << "a", ":", "9", "2", "2", "3", "3", "7", "2", "0", "3", "6",
         "8", "5", "4", "7", "7", "5", "8", "0", "8" >> }
URLInputs == { p \o r : p \in Prefixes, r \in Rests \cup LongRests }

(***************************************************************************)
(* Actions.                                                                *)
(***************************************************************************)
Init == call = Idle /\ peer = Idle /\ url = << >> /\ parsed = NoParse

CallParseURL ==
    /\ call.pc = "idle"
    /\ \E u \in URLInputs : url' = u /\ parsed' = ParseURL(u)
    /\ call' = [ call EXCEPT !.pc = "done", !.entry = "ParseURL" ]
    /\ peer' = peer

CallDoHTTPWithHandler ==
    /\ call.pc = "idle"
    /\ \E hp \in HTTPParams, in \in Inputs, h \in BOOLEAN :
         call' = BeginAttempt([ call EXCEPT !.entry = "DoHTTPWithHandler", !.hp = hp,
                                            !.in = in, !.hasHandler = h ])
    /\ UNCHANGED << url, parsed, peer >>

CallDoHTTP ==
    /\ call.pc = "idle"
    /\ \E hp \in HTTPParams, in \in Inputs :
         call' = BeginAttempt([ call EXCEPT !.entry = "DoHTTP", !.hp = hp, !.in = in ])
    /\ UNCHANGED << url, parsed, peer >>

CallDoHTTPWithRetry ==
    /\ call.pc = "idle"
    /\ \E hp \in HTTPParams, in \in Inputs, n \in (-1)..MaxRetry, w \in WaitTimes :
         call' = [ call EXCEPT !.entry = "DoHTTPWithRetry", !.hp = hp, !.in = in,
                               !.maxRetryTimes = n, !.waitTime = w, !.i = 0,
                               !.pc = "loop" ]
    /\ UNCHANGED << url, parsed, peer >>

\* the caller calls DoHTTPWithHandler once more, with the same arguments and
\* the same output location
CallAgain ==
    /\ call.pc = "done" /\ call.entry = "DoHTTPWithHandler"
    /\ call.ret.kind = "void" /\ call.run = 1
    /\ call' = BeginAttempt(
           [ call EXCEPT !.run = 2, !.ret = NoRet, !.okAt = 0,
                         !.first = [ ok |-> call.failed = << >>,
                                     payload |-> IF call.failed = << >>
                                                 THEN call.resp.payload
                                                 ELSE NoFirst.payload,
                                     out |-> call.out, calls |-> Len(call.cb) ] ])
    /\ UNCHANGED << url, parsed, peer >>

DoMarshal ==
    call.pc = "marshal" /\ call' \in MarshalStep(call) /\ UNCHANGED << url, parsed, peer >>

DoNewRequest ==
    call.pc = "newreq" /\ call' \in NewRequestStep(call) /\ UNCHANGED << url, parsed, peer >>

DoSetHeaders ==
    call.pc = "headers" /\ call' \in HeadersStep(call) /\ UNCHANGED << url, parsed, peer >>

DoSend ==
    call.pc = "send" /\ call' \in SendStep(call) /\ UNCHANGED << url, parsed, peer >>

DoReadBody ==
    call.pc = "read" /\ call' \in ReadStep(call) /\ UNCHANGED << url, parsed, peer >>

DoCheckStatus ==
    call.pc = "status" /\ call' \in StatusStep(call) /\ UNCHANGED << url, parsed, peer >>

DoUnmarshal ==
    call.pc = "unmarshal" /\ call' \in UnmarshalStep(call) /\ UNCHANGED << url, parsed, peer >>

Return ==
    call.pc = "return" /\ call' = ReturnStep(call) /\ UNCHANGED << url, parsed, peer >>

Sleep ==
    call.pc = "sleep" /\ call' = SleepStep(call) /\ UNCHANGED << url, parsed, peer >>

Loop ==
    call.pc = "loop" /\ call' = LoopStep(call) /\ UNCHANGED << url, parsed, peer >>

Next ==
    \/ CallParseURL
    \/ CallDoHTTPWithHandler
    \/ CallDoHTTP
    \/ CallDoHTTPWithRetry
    \/ CallAgain
    \/ DoMarshal
    \/ DoNewRequest
    \/ DoSetHeaders
    \/ DoSend
    \/ DoReadBody
    \/ DoCheckStatus
    \/ DoUnmarshal
    \/ Return
    \/ Sleep
    \/ Loop

Spec == Init /\ [][Next]_vars

(***************************************************************************)
(* Two calls in progress at once, each made by its own goroutine with its  *)
(* own output location; their steps interleave in every order.  call is a  *)
(* call of DoHTTP or of DoHTTPWithRetry, peer a call of DoHTTP.            *)
(***************************************************************************)
\* arguments of the two calls: a request with a body, no caller headers
ConcParams == { hp \in HTTPParams : hp.Headers = { } /\ hp.Method = "POST" }

\* the first state of a call of DoHTTP or of DoHTTPWithRetry
StartCall(entry, hp, in) ==
    IF entry = "DoHTTP"
    THEN BeginAttempt([ Idle EXCEPT !.entry = entry, !.hp = hp, !.in = in ])
    ELSE [ Idle EXCEPT !.entry = entry, !.hp = hp, !.in = in,
                       !.maxRetryTimes = ConcRetry, !.waitTime = 100, !.pc = "loop" ]

\* the states a call may be in after its next step
StepOf(c) ==
    CASE c.pc = "marshal" -> MarshalStep(c)
      [] c.pc = "newreq" -> NewRequestStep(c)
      [] c.pc = "headers" -> HeadersStep(c)
      [] c.pc = "send" -> SendStep(c)
      [] c.pc = "read" -> ReadStep(c)
      [] c.pc = "status" -> StatusStep(c)
      [] c.pc = "unmarshal" -> UnmarshalStep(c)
      [] c.pc = "return" -> { ReturnStep(c) }
      [] c.pc = "sleep" -> { SleepStep(c) }
      [] c.pc = "loop" -> { LoopStep(c) }
      [] OTHER -> { }

\* a call whose e is the e of the call that has just taken a step, as it
\* would be were e a variable of the package
SharedE(other, mine) == [ other EXCEPT !.e = mine.e ]

\* what a step of one call does to the other: nothing.  e (line 159), err
\* (line 75), req, resp and body are locals of each call, and the handler
\* closure of line 160 writes the e of its own call
Untouched(other, mine) == other

ConcStart ==
    /\ call.pc = "idle" /\ peer.pc = "idle"
    /\ \E e1 \in { "DoHTTP", "DoHTTPWithRetry" },
          hp1 \in ConcParams, hp2 \in ConcParams, in1 \in Inputs, in2 \in Inputs :
         /\ call' = StartCall(e1, hp1, in1)
         /\ peer' = StartCall("DoHTTP", hp2, in2)
    /\ UNCHANGED << url, parsed >>

ConcStepCall ==
    /\ peer.pc # "idle"
    /\ \E c \in StepOf(call) : call' = c /\ peer' = Untouched(peer, c)
    /\ UNCHANGED << url, parsed >>

ConcStepPeer ==
    /\ call.pc # "idle"
    /\ \E c \in StepOf(peer) : peer' = c /\ call' = Untouched(call, c)
    /\ UNCHANGED << url, parsed >>

NextConc == ConcStart \/ ConcStepCall \/ ConcStepPeer

SpecConc == Init /\ [][NextConc]_vars

\* every attempt and every sleep returns: a call that can take a step takes it
FairSpec == Spec /\ WF_vars(Next)

(***************************************************************************)
(* Properties.                                                             *)
(***************************************************************************)
Range(q) == { q[k] : k \in 1..Len(q) }

InRetry == call.entry = "DoHTTPWithRetry"
InHTTP == call.entry \in { "DoHTTPWithHandler", "DoHTTP", "DoHTTPWithRetry" }
Done == call.pc = "done"
\* DoHTTPWithRetry has returned the error of line 84
Exhausted == InRetry /\ Done /\ call.ret.kind = "error" /\ call.ret.err # NilErr
\* DoHTTPWithRetry has returned nil
Succeeded == InRetry /\ Done /\ call.ret.kind = "error" /\ call.ret.err = NilErr

\* C1: when every attempt fails and the maximum is N >= 1, DoHTTPWithRetry
\* makes exactly N attempts, sleeps exactly N-1 times and returns an error
\* that carries N and the request path.
C1_RetryExhaustion ==
    (Exhausted /\ call.maxRetryTimes >= 1) =>
        /\ call.attempts = call.maxRetryTimes
        /\ call.sleeps = call.maxRetryTimes - 1
        /\ call.ret.err.maxtimes = call.maxRetryTimes
        /\ call.ret.err.path = call.hp.Path

\* the value behind the output location holds the document: every member has
\* been stored, and the fields the document does not name are as before
Holds(out, doc, before) ==
    /\ \A k \in 1..Len(doc.members) : out[doc.members[k].f] = doc.members[k].v
    /\ \A f \in Fields \ { doc.members[k].f : k \in 1..Len(doc.members) } :
         out[f] = before[f]

\* C2: if attempts 1..k-1 fail and attempt k succeeds (k <= maxRetryTimes),
\* DoHTTPWithRetry returns nil right after attempt k, makes no further
\* attempt, has slept exactly k-1 times, and the output location holds the
\* payload of attempt k.
C2_RetrySuccess ==
    /\ (InRetry /\ call.okAt # 0) =>
          /\ Succeeded
          /\ call.okAt <= call.maxRetryTimes
          /\ call.attempts = call.okAt
          /\ call.sleeps = call.okAt - 1
          /\ Holds(call.out, call.resp.payload.doc, call.out0)
    /\ Succeeded => call.okAt = call.attempts

C2_Witness ==
    /\ Succeeded
    /\ call.okAt = 2
    /\ call.sleeps = 1
    /\ call.resp.payload.doc = FullDoc
    /\ call.out = [ f \in Fields |-> 1 ]

\* C3: in one execution of DoHTTPWithHandler with a failure callback, the
\* callback is invoked at most once: exactly once when a step of the attempt
\* fails, never when every step succeeds.
C3_CallbackOnce ==
    (InHTTP /\ call.hasHandler) =>
        /\ Len(call.cb) <= 1
        /\ (call.failed # << >>) <=> (Len(call.cb) = 1)
        /\ (call.pc \in { "return", "done" } /\ call.failed = << >>) => call.cb = << >>

C3_Witness ==
    /\ call.entry = "DoHTTPWithHandler"
    /\ call.hasHandler
    /\ Done
    /\ call.failed = << "unmarshal" >>
    /\ Len(call.cb) = 1

\* the failure category of each step of the executor
CategoryOf(step) ==
    CASE step = "marshal" -> InParameterMarshalToJSONError
      [] step = "newreq" -> NewHTTPRequestError
      [] step = "send" -> DoHTTPError
      [] step = "read" -> IOError
      [] step = "status" -> ResponseStatusCodeNotOK
      [] step = "unmarshal" -> OutParameterRunMarshalFromJSONError

\* the steps of the executor in their order, for a method
StepOrder(method) ==
    (IF method = "GET" THEN << >> ELSE << "marshal" >>)
        \o << "newreq", "headers", "send", "read", "status", "unmarshal" >>

IsPrefix(p, q) == Len(p) <= Len(q) /\ SubSeq(q, 1, Len(p)) = p

\* C4: with a failure callback, the steps run in order and the first step to
\* fail ends the attempt: the callback receives that step's category and no
\* later step runs (no body read or decode after a failed send, no
\* deserialization of a non-200 response).
C4_FailingStepEndsAttempt ==
    (InHTTP /\ call.hasHandler) =>
        /\ IsPrefix(call.trace, StepOrder(call.hp.Method))
        /\ call.failed # << >> =>
              /\ Len(call.failed) = 1
              /\ call.trace[Len(call.trace)] = call.failed[1]
              /\ Len(call.cb) = 1
              /\ call.cb[1].et = CategoryOf(call.failed[1])
              /\ call.pc \in { "return", "done", "sleep", "loop" }
        /\ "send" \in Range(call.failed) =>
              "read" \notin Range(call.trace) /\ "unmarshal" \notin Range(call.trace)
        /\ "status" \in Range(call.failed) =>
              "unmarshal" \notin Range(call.trace) /\ call.out = call.out0

C4_Witness ==
    /\ call.entry = "DoHTTPWithHandler"
    /\ call.hasHandler
    /\ Done
    /\ call.failed = << "send" >>
    /\ call.trace = << "marshal", "newreq", "headers", "send" >>
    /\ call.cb[1].et = DoHTTPError

\* C5: after an execution of DoHTTPWithHandler that reports a failure, the
\* output location holds the value it held before the attempt.
C5_OutputOnlyOnSuccess ==
    (InHTTP /\ call.hasHandler /\ call.cb # << >>) => call.out = call.out0

\* C6: for a response whose status is not 200, read in full, the callback
\* receives ResponseStatusCodeNotOK and an error that carries the status code
\* and the first 200 bytes of the body at most; a body of 200 bytes or fewer
\* is carried whole.
C6_StatusNotOK ==
    (InHTTP /\ call.hasHandler /\ "status" \in Range(call.trace)
        /\ call.resp.status # StatusOK) =>
        LET n == call.resp.payload.len
        IN  /\ Len(call.cb) = 1
            /\ call.cb[1].et = ResponseStatusCodeNotOK
            /\ call.cb[1].err.code = call.resp.status
            /\ Len(call.cb[1].err.message) <= 200
            /\ IsPrefix(call.cb[1].err.message, Bytes(n))
            /\ n <= 200 => call.cb[1].err.message = Bytes(n)
            /\ n > 200 => Len(call.cb[1].err.message) = 200

C6_Witness ==
    /\ call.entry = "DoHTTPWithHandler"
    /\ call.hasHandler
    /\ Done
    /\ ~call.resp.isNil
    /\ call.resp.status = 404
    /\ call.resp.payload.len = 201
    /\ call.cb[1].et = ResponseStatusCodeNotOK
    /\ Len(call.cb[1].err.message) = 200

\* C7: with method GET the input is never serialized and
\* InParameterMarshalToJSONError is never reported, whatever the input; with
\* any other method serialization is the first step, before the request is
\* constructed.
C7_GetNeverSerializes ==
    InHTTP =>
        /\ call.hp.Method = "GET" =>
              /\ "marshal" \notin Range(call.trace)
              /\ \A k \in 1..Len(call.cb) : call.cb[k].et # InParameterMarshalToJSONError
        /\ (call.hp.Method # "GET" /\ call.trace # << >>) => call.trace[1] = "marshal"
        /\ (call.hp.Method # "GET" /\ ~call.req.isNil) => "marshal" \in Range(call.trace)

C7_Witness ==
    /\ call.entry = "DoHTTPWithHandler"
    /\ call.hp.Method = "GET"
    /\ ~call.in.ok
    /\ Done
    /\ call.failed = << >>
    /\ call.trace = StepOrder("GET")

\* C8: when every attempt fails, the error DoHTTPWithRetry returns carries
\* the maximum attempt count, the request path and the error of the last
\* attempt only.
C8_LastErrorOnly ==
    Exhausted =>
        /\ call.ret.err.maxtimes = call.maxRetryTimes
        /\ call.ret.err.path = call.hp.Path
        /\ Len(call.cb) = 1
        /\ call.ret.err.err = DoHTTPHandler(call.hp, call.cb[1].et, call.cb[1].err)
        /\ DOMAIN call.ret.err = { "fmt", "maxtimes", "path", "err" }

C8_Witness ==
    /\ Exhausted
    /\ call.attempts = 2
    /\ call.firstErr # call.e
    /\ call.ret.err.err = call.e
    /\ call.ret.err.err # call.firstErr

\* ParseURL has run on an input with a recognised scheme
Recognised(u) == HasPrefix(u, HttpPrefix) \/ HasPrefix(u, HttpsPrefix)
ParsedURL == call.entry = "ParseURL" /\ Recognised(url)

\* the text between the scheme and the first "/", its host and its port text
Segment(u) ==
    LET rest == SubSeq(u, IF HasPrefix(u, HttpsPrefix) THEN 9 ELSE 8, Len(u))
        k    == IndexOf(rest, "/")
    IN  IF k = 0 THEN rest ELSE SubSeq(rest, 1, k - 1)
Colons(seg) == Cardinality({ k \in 1..Len(seg) : seg[k] = ":" })
PortText(seg) == SubSeq(seg, IndexOf(seg, ":") + 1, Len(seg))
EmptyHost(seg) == seg = << >> \/ seg[1] = ":"
AllDigits(t) == t # << >> /\ \A k \in 1..Len(t) : t[k] \in Digits
\* a decimal number, with or without a sign
Numeric(t) == AllDigits(t) \/ (t # << >> /\ t[1] \in { "-", "+" } /\ AllDigits(Tail(t)))

Malformed(u) ==
    LET seg == Segment(u)
    IN  \/ Colons(seg) > 1
        \/ (Colons(seg) = 1 /\ ~Numeric(PortText(seg)))
        \/ EmptyHost(seg)

\* C9: ParseURL returns an error for every malformed input: a host-port
\* segment with more than one ":", a non-numeric port, or an empty host.
C9_MalformedIsError ==
    (ParsedURL /\ Malformed(url)) => parsed.err # "nil"

\* the decimal digits t as a number that fits 32 bits, as << low, high >>
Fits32(t) ==
    LET acc == Accumulate([ mag |-> ZeroLimbs, over |-> FALSE ], t)
    IN  ~acc.over /\ acc.mag[3] = 0 /\ acc.mag[4] = 0
Value32(t) ==
    LET acc == Accumulate([ mag |-> ZeroLimbs, over |-> FALSE ], t)
    IN  << acc.mag[1], acc.mag[2] >>

\* C10: when the host-port segment has exactly two parts, ParseURL succeeds
\* only if the second is a base-10 non-negative integer that fits 32 bits,
\* and the port returned is that integer.
C10_PortIsNonNegative ==
    (ParsedURL /\ Colons(Segment(url)) = 1 /\ parsed.err = "nil") =>
        LET t  == PortText(Segment(url))
            ds == IF t # << >> /\ t[1] = "+" THEN Tail(t) ELSE t
        IN  /\ AllDigits(ds)
            /\ Fits32(ds)
            /\ parsed.port = Value32(ds)

\* a well-formed input scheme://host[:port][/path]: a recognised scheme, a
\* host that is not empty, at most one ":" and after it a decimal port that
\* fits the 32 bits of the result
WellFormed(u) ==
    LET seg == Segment(u)
    IN  /\ Recognised(u)
        /\ ~EmptyHost(seg)
        /\ Colons(seg) <= 1
        /\ Colons(seg) = 1 => AllDigits(PortText(seg)) /\ Fits32(PortText(seg))

\* what the input says: its scheme, host, port and path
SchemeOf(u) == IF HasPrefix(u, HttpsPrefix) THEN "https" ELSE "http"
HostOf(u) ==
    LET seg == Segment(u)
        k   == IndexOf(seg, ":")
    IN  IF k = 0 THEN seg ELSE SubSeq(seg, 1, k - 1)
PortOf(u) ==
    IF Colons(Segment(u)) = 1 THEN Value32(PortText(Segment(u)))
    ELSE IF SchemeOf(u) = "http" THEN << 80, 0 >> ELSE << 443, 0 >>
PathOf(u) ==
    LET rest == SubSeq(u, IF HasPrefix(u, HttpsPrefix) THEN 9 ELSE 8, Len(u))
        k    == IndexOf(rest, "/")
    IN  IF k = 0 THEN << >> ELSE SubSeq(rest, k, Len(rest))

\* C11: for every well-formed input scheme://host[:port][/path] ParseURL
\* returns the scheme, the host, the explicit port or the default (80 for
\* http, 443 for https) and the path ("/" and what follows the first "/",
\* empty when there is none), with a nil error; for every input that starts
\* with neither "http://" nor "https://" it returns an error.
C11_WellFormedParsed ==
    call.entry = "ParseURL" =>
        /\ WellFormed(url) =>
              /\ parsed.err = "nil"
              /\ parsed.protocol = SchemeOf(url)
              /\ parsed.host = HostOf(url)
              /\ parsed.port = PortOf(url)
              /\ parsed.path = PathOf(url)
        /\ ~Recognised(url) => parsed.err \notin { "nil", "none" }

C11_Witness ==
    /\ call.entry = "ParseURL"
    /\ url = HttpsPrefix \o << "a", ":", "7", "/" >>
    /\ WellFormed(url)
    /\ parsed = [ protocol |-> "https", host |-> << "a" >>, port |-> << 7, 0 >>,
                  path |-> << "/" >>, err |-> "nil" ]

\* the headers DoHTTPWithHandler injects, by the name the request holds them under
StandardHeaders(hp) ==
    { << "Content-Type", "application/json" >>, << ClusterHeader, hp.ClusterName >>,
      << "Kuscia-Source", hp.KusciaSource >>, << "Kuscia-Host", hp.KusciaHost >> }
\* the request has been given its headers
HeadersSet == InHTTP /\ ~call.req.isNil /\ "headers" \in Range(call.trace)
\* names the caller supplies, as the request holds them
CallerNames(hp) == { Canonical(p[1]) : p \in hp.Headers }
\* the caller supplies this name once only, letter case aside
Single(hp, name) == Cardinality({ p \in hp.Headers : Canonical(p[1]) = name }) = 1
\* a request holds one value for each name
OneValueEach(h) == \A p \in h, q \in h : p[1] = q[1] => p = q
\* standard headers the caller does not name keep their standard values
StandardKept(hp, h) ==
    \A s \in StandardHeaders(hp) : s[1] \notin CallerNames(hp) => s \in h

\* C12 as stated: in the request sent, every caller-supplied extra header is
\* present with the caller's value, replacing a standard header of the same
\* name; standard headers the caller does not name keep their values.
C12_EveryCallerHeaderPresent ==
    HeadersSet =>
        /\ \A p \in call.hp.Headers : << Canonical(p[1]), p[2] >> \in call.req.header
        /\ OneValueEach(call.req.header)
        /\ StandardKept(call.hp, call.req.header)

\* C12: in the request sent, every caller-supplied extra header whose name
\* no other caller-supplied header shares (letter case aside) is present with
\* the caller's value, replacing a standard header of the same name; of
\* caller-supplied headers that share a name one value is present; standard
\* headers the caller does not name keep their values.
C12_HeaderOverride ==
    HeadersSet =>
        /\ \A p \in call.hp.Headers :
              IF Single(call.hp, Canonical(p[1]))
              THEN << Canonical(p[1]), p[2] >> \in call.req.header
              ELSE \E q \in call.hp.Headers :
                      /\ Canonical(q[1]) = Canonical(p[1])
                      /\ << Canonical(q[1]), q[2] >> \in call.req.header
        /\ OneValueEach(call.req.header)
        /\ StandardKept(call.hp, call.req.header)
        /\ { p[1] : p \in call.req.header }
              = { s[1] : s \in StandardHeaders(call.hp) } \cup CallerNames(call.hp)

C12_Witness ==
    /\ HeadersSet
    /\ call.pc = "send"
    /\ << "Content-Type", "text/plain" >> \in call.hp.Headers
    /\ << "Content-Type", "text/plain" >> \in call.req.header
    /\ << "Content-Type", "application/json" >> \notin call.req.header
    /\ << "Kuscia-Source", call.hp.KusciaSource >> \in call.req.header

\* the clause of the error text for the step that failed
ClauseOfStep(step) ==
    CASE step = "newreq" -> "%s new fail:%v"
      [] step = "marshal" -> "%s in parameter marshal to json fail:%v"
      [] step = "unmarshal" -> "%s out parameter unmarshal from json fail:%v"
      [] step = "status" -> "%s get code is not ok: %v"
      [] step = "send" -> "%s do fail: %v"
      [] step = "read" -> "%s read body fail: %v"

\* C13: DoHTTP returns nil exactly when every step of the attempt succeeded;
\* otherwise it returns the one error the executor reported, made of the
\* request prefix (method, path, cluster, host), the clause of the failing
\* step's category and the error reported.
C13_DoHTTPReturns ==
    (call.entry = "DoHTTP" /\ Done) =>
        /\ call.ret.kind = "error"
        /\ (call.ret.err = NilErr) <=> (call.failed = << >>)
        /\ call.failed # << >> =>
              /\ Len(call.failed) = 1
              /\ Len(call.cb) = 1
              /\ call.ret.err.fmt = ClauseOfStep(call.failed[1])
              /\ call.ret.err.prefix =
                    [ fmt |-> "request(method:%s path:%s cluster:%s host:%s)",
                      method |-> call.hp.Method, path |-> call.hp.Path,
                      cluster |-> call.hp.ClusterName, host |-> call.hp.KusciaHost ]
              /\ call.ret.err.err = call.cb[1].err

C13_Witness ==
    /\ call.entry = "DoHTTP"
    /\ Done
    /\ call.failed = << "read" >>
    /\ call.ret.err.fmt = "%s read body fail: %v"
    /\ call.ret.err.err = ReadErr

\* C14: DoHTTPWithRetry retries every failure category alike: each failed
\* attempt is followed by one sleep of waitTime, whatever its category and
\* however many attempts were made, and the loop ends early on success only:
\* an error is returned only after maxRetryTimes attempts.
C14_RetryAlike ==
    InRetry =>
        /\ \A k \in 1..Len(call.slept) : call.slept[k] = call.waitTime
        /\ Len(call.slept) = call.sleeps
        /\ call.pc = "sleep" =>
              /\ call.failed # << >>
              /\ Len(call.cb) = 1 /\ call.cb[1].et \in ErrTypes
              /\ call.sleeps = call.attempts - 1
        /\ (call.pc = "loop" /\ call.attempts > 0) =>
              call.failed # << >> /\ call.sleeps = call.attempts
        /\ (call.pc \in { "return", "sleep" } /\ call.failed # << >>) =>
              call.attempts <= call.maxRetryTimes
        /\ Exhausted => call.attempts = call.maxRetryTimes
        /\ (Done /\ call.failed # << >>) => Exhausted

C14_Witness ==
    /\ Exhausted
    /\ call.attempts = 3
    /\ call.slept = << 250, 250, 250 >>
    /\ call.firstErr.fmt = "%s do fail: %v"
    /\ call.e.fmt = "%s get code is not ok: %v"

\* the second of two runs of DoHTTPWithHandler has returned
SecondDone == call.entry = "DoHTTPWithHandler" /\ call.run = 2 /\ Done
                 /\ call.ret.kind = "void"

\* C15: two executions of DoHTTPWithHandler with the same RequestSpec, both
\* succeeding with the same payload, leave the output location after the
\* second as it was after the first, and invoke no callback.
C15_Idempotent ==
    (SecondDone /\ call.first.ok /\ call.failed = << >>
        /\ call.resp.payload = call.first.payload) =>
        /\ call.out = call.first.out
        /\ call.first.calls = 0
        /\ call.cb = << >>

C15_Witness ==
    /\ SecondDone
    /\ call.hasHandler
    /\ call.first.ok
    /\ call.failed = << >>
    /\ call.first.payload.doc = FullDoc
    /\ call.resp.payload = call.first.payload
    /\ call.out = [ f \in Fields |-> 1 ]

\* C16: when DoHTTPWithHandler is called with a nil handler, a failing step
\* still ends the attempt: no later step runs on the missing request or
\* response (no nil pointer dereference), and a non-200 or undecodable
\* response does not change the output location.
C16_NilHandlerStops ==
    (InHTTP /\ ~call.hasHandler) =>
        /\ call.ret.kind # "panic"
        /\ call.failed # << >> =>
              /\ Len(call.failed) = 1
              /\ call.trace[Len(call.trace)] = call.failed[1]
        /\ ("status" \in Range(call.failed) \/ "unmarshal" \in Range(call.failed)) =>
              call.out = call.out0

\* C17: for a maximum attempt count of zero or less DoHTTPWithRetry makes no
\* attempt and no sleep and returns an error that names the count and the
\* path; it does not crash on the text of an absent last error.
C17_ZeroAttempts ==
    (InRetry /\ call.maxRetryTimes <= 0 /\ Done) =>
        /\ call.ret.kind = "error"
        /\ call.ret.err # NilErr
        /\ call.ret.err.maxtimes = call.maxRetryTimes
        /\ call.ret.err.path = call.hp.Path
        /\ call.attempts = 0
        /\ call.sleeps = 0

\* DoHTTPWithRetry has returned to its caller, with nil or with an error
RetryReturned == InRetry /\ Done /\ call.ret.kind = "error"

\* C18: DoHTTPWithRetry always terminates: when every attempt and every sleep
\* returns it eventually returns, and the number of attempts made never
\* exceeds maxRetryTimes (none is made when maxRetryTimes is negative).
C18_Terminates ==
    /\ [](InRetry => call.attempts <= (IF call.maxRetryTimes < 0 THEN 0
                                       ELSE call.maxRetryTimes))
    /\ InRetry ~> RetryReturned

\* the error and the output of a finished call c follow from the attempts of
\* c alone: the error is the one built from the last report to the handler of
\* c (nil when there was none), and the output is what decoding the body c
\* read makes of the output c had when its last attempt began
Own(c) ==
    c.pc = "done" =>
        LET lastErr == IF c.cb = << >> THEN NilErr
                       ELSE DoHTTPHandler(c.hp, c.cb[1].et, c.cb[1].err)
        IN  /\ c.ret.kind = "error"
            /\ c.ret.err = IF c.entry = "DoHTTP" \/ lastErr = NilErr THEN lastErr
                           ELSE RetryError(c.maxRetryTimes, c.hp, lastErr)
            /\ (c.cb = << >>) <=> (c.failed = << >>)
            /\ c.failed # << >> => c.cb[1].et = CategoryOf(c.failed[1])
            /\ c.out = IF "unmarshal" \in Range(c.trace)
                       THEN JSONUnmarshal(c.resp.payload.doc, c.out0).out
                       ELSE c.out0

\* C19: two calls of DoHTTP or DoHTTPWithRetry with distinct output locations
\* that run interleaved share no mutable state: in every interleaving the
\* error each returns and the output each leaves reflect its own attempts only.
C19_NoSharedState ==
    (call.pc # "idle" /\ peer.pc # "idle") => Own(call) /\ Own(peer)

C19_Witness ==
    /\ call.pc = "done" /\ peer.pc = "done"
    /\ call.entry = "DoHTTPWithRetry" /\ call.attempts = 1
    /\ call.ret.err = NilErr /\ call.out = [ f \in Fields |-> 1 ]
    /\ peer.ret.err # NilErr /\ peer.failed = << "status" >>
    /\ peer.out = OutInit

=============================================================================
